---- MODULE Spec2Model ----
(***************************************************************************)
(* Snap-to-Report: the photo uploader (current and draft versions), the    *)
(* two proxy routes, the report parser and the dashboard's fetch.          *)
(*                                                                         *)
(* Text is modelled as a sequence of lexical tokens.  A token is a record  *)
(* [k, s]: k is the token class, s the content of a string literal.        *)
(* Quotes occur only as the delimiters of string-literal tokens, and bare  *)
(* words ("junk") are never field names, so a match of one of the fixed    *)
(* per-field patterns on the characters is a match on the tokens.          *)
(***************************************************************************)
EXTENDS Integers, Sequences, FiniteSets, TLC

\* ------------------------------------------------------------------------
\* Bounds of the model
\* ------------------------------------------------------------------------
MaxLen == 3        \* longest report text enumerated token by token
MaxRuns == 3       \* handler runs started per session
MaxDraftRuns == 4  \* the same in the draft uploader, whose runs overlap
MaxRows == 3       \* rows the table returns to the dashboard

\* ------------------------------------------------------------------------
\* JavaScript values, as far as the code inspects them
\* ------------------------------------------------------------------------
JsVal(t, s) == [t |-> t, s |-> s]
Undefined == JsVal("undef", "")
JsNull == JsVal("null", "")
JsNum == JsVal("num", "7")
JsStr(s) == JsVal("str", s)
JsObj == JsVal("obj", "")
JsArr == JsVal("arr", "")

\* x || "" keeps x unless it is falsy (undefined, null, "", 0)
Truthy(v) == \/ v.t \in {"num", "obj", "arr"}
             \/ v.t = "str" /\ v.s # ""
OrEmpty(v) == IF Truthy(v) THEN v ELSE JsStr("")

\* ------------------------------------------------------------------------
\* Tokens
\* ------------------------------------------------------------------------
Tok(k, s) == [k |-> k, s |-> s]
LBrace == Tok("{", "")
RBrace == Tok("}", "")
LBracket == Tok("[", "")
RBracket == Tok("]", "")
Comma == Tok(",", "")
Colon == Tok(":", "")
Ws == Tok("ws", "")        \* space, tab, newline: JSON whitespace
Nbsp == Tok("nbsp", "")    \* whitespace for trim() and \s, not for JSON
NullLit == Tok("null", "")
NumLit == Tok("num", "7")
Junk == Tok("junk", "")    \* a bare word outside any string literal
Str(s) == Tok("str", s)

Fields == <<"title", "category", "location", "description", "impact">>
FieldSet == {Fields[i] : i \in 1..Len(Fields)}

IsSpace(tok) == tok.k \in {"ws", "nbsp"}

\* ------------------------------------------------------------------------
\* String.prototype.trim and JSON.parse on token sequences
\* ------------------------------------------------------------------------
RECURSIVE TrimLeft(_)
TrimLeft(t) == IF t # <<>> /\ IsSpace(Head(t)) THEN TrimLeft(Tail(t)) ELSE t

RECURSIVE TrimRight(_)
TrimRight(t) ==
    IF t # <<>> /\ IsSpace(t[Len(t)]) THEN TrimRight(SubSeq(t, 1, Len(t) - 1)) ELSE t

Trim(t) == TrimRight(TrimLeft(t))

\* index of the first token at or after i that is not JSON whitespace
RECURSIVE SkipWs(_, _)
SkipWs(t, i) == IF i <= Len(t) /\ t[i] = Ws THEN SkipWs(t, i + 1) ELSE i

At(t, i, tok) == i <= Len(t) /\ t[i] = tok

\* A parse step yields [ok, v, mem, i]: the value's kind, the members of an
\* object (in text order) and the index after the value.
ParseFail == [ok |-> FALSE, v |-> Undefined, mem |-> <<>>, i |-> 0]
ParseOk(v, mem, i) == [ok |-> TRUE, v |-> v, mem |-> mem, i |-> i]

RECURSIVE ParseValue(_, _)
RECURSIVE ParseMembers(_, _, _)
RECURSIVE ParseElements(_, _)

ParseValue(t, i) ==
    LET j == SkipWs(t, i) IN
    IF j > Len(t) THEN ParseFail
    ELSE CASE t[j].k = "null" -> ParseOk(JsNull, <<>>, j + 1)
           [] t[j].k = "num" -> ParseOk(JsNum, <<>>, j + 1)
           [] t[j].k = "str" -> ParseOk(JsStr(t[j].s), <<>>, j + 1)
           [] t[j].k = "{" ->
                LET k == SkipWs(t, j + 1) IN
                IF At(t, k, RBrace) THEN ParseOk(JsObj, <<>>, k + 1)
                ELSE ParseMembers(t, k, <<>>)
           [] t[j].k = "[" ->
                LET k == SkipWs(t, j + 1) IN
                IF At(t, k, RBracket) THEN ParseOk(JsArr, <<>>, k + 1)
                ELSE ParseElements(t, k)
           [] OTHER -> ParseFail

\* k is where a member's key must stand
ParseMembers(t, k, acc) ==
    IF ~(k <= Len(t) /\ t[k].k = "str") THEN ParseFail
    ELSE LET c == SkipWs(t, k + 1) IN
         IF ~At(t, c, Colon) THEN ParseFail
         ELSE LET val == ParseValue(t, c + 1) IN
              IF ~val.ok THEN ParseFail
              ELSE LET e == SkipWs(t, val.i)
                       acc2 == Append(acc, [k |-> t[k].s, v |-> val.v])
                   IN  IF At(t, e, RBrace) THEN ParseOk(JsObj, acc2, e + 1)
                       ELSE IF At(t, e, Comma)
                            THEN ParseMembers(t, SkipWs(t, e + 1), acc2)
                            ELSE ParseFail

ParseElements(t, k) ==
    LET val == ParseValue(t, k) IN
    IF ~val.ok THEN ParseFail
    ELSE LET e == SkipWs(t, val.i) IN
         IF At(t, e, RBracket) THEN ParseOk(JsArr, <<>>, e + 1)
         ELSE IF At(t, e, Comma) THEN ParseElements(t, e + 1)
              ELSE ParseFail

\* JSON.parse: one value, then nothing but whitespace; throws otherwise
JSONparse(t) ==
    LET r == ParseValue(t, 1) IN
    IF r.ok /\ SkipWs(t, r.i) > Len(t) THEN r ELSE ParseFail

\* parsed.key: the last member of that name wins; undefined when the value
\* is no object or has no such member
RECURSIVE Member(_, _)
Member(mem, key) ==
    IF mem = <<>> THEN Undefined
    ELSE IF mem[Len(mem)].k = key THEN mem[Len(mem)].v
         ELSE Member(SubSeq(mem, 1, Len(mem) - 1), key)

\* ------------------------------------------------------------------------
\* The fixed per-field patterns  /"<key>":\s*"([^"]*?)"/
\* ------------------------------------------------------------------------
RECURSIVE SkipSpace(_, _)
SkipSpace(t, i) == IF i <= Len(t) /\ IsSpace(t[i]) THEN SkipSpace(t, i + 1) ELSE i

\* the pattern matches with "<key>" at token i
MatchesAt(t, key, i) ==
    /\ At(t, i, Str(key))
    /\ At(t, i + 1, Colon)
    /\ LET j == SkipSpace(t, i + 2) IN j <= Len(t) /\ t[j].k = "str"

MatchPositions(t, key) == {i \in 1..Len(t) : MatchesAt(t, key, i)}

Min(S) == CHOOSE x \in S : \A y \in S : x <= y

\* reportStr.match(pattern): [found, group1] of the leftmost match
Match(t, key) ==
    LET P == MatchPositions(t, key) IN
    IF P = {} THEN [found |-> FALSE, group1 |-> ""]
    ELSE [found |-> TRUE, group1 |-> t[SkipSpace(t, Min(P) + 2)].s]

\* ------------------------------------------------------------------------
\* parseReportString
\* ------------------------------------------------------------------------
Outcome(kind, ti, ca, lo, de, im) ==
    [kind |-> kind, title |-> ti, category |-> ca, location |-> lo,
     description |-> de, impact |-> im]
Report(ti, ca, lo, de, im) == Outcome("report", ti, ca, lo, de, im)
Blank(kind) == Outcome(kind, JsStr(""), JsStr(""), JsStr(""), JsStr(""), JsStr(""))
NullReport == Blank("null")       \* return null
Threw == Blank("throw")           \* a TypeError leaves the function
Pending == Blank("pending")       \* not called yet

\* the catch branch: regex extraction
RegexCapture(t, key) ==
    LET m == Match(t, key) IN
    IF m.found /\ m.group1 # "" THEN JsStr(m.group1) ELSE JsStr("")

\* the fallback returning null only when no field at all was captured
RegexFallbackAnyField(t) ==
    LET result == Report(RegexCapture(t, "title"), RegexCapture(t, "category"),
                         RegexCapture(t, "location"), RegexCapture(t, "description"),
                         RegexCapture(t, "impact"))
    IN  IF \A f \in FieldSet : ~Truthy(result[f]) THEN NullReport ELSE result

RegexFallback(t) ==
    LET result == Report(RegexCapture(t, "title"), RegexCapture(t, "category"),
                         RegexCapture(t, "location"), RegexCapture(t, "description"),
                         RegexCapture(t, "impact"))
    IN  IF ~Truthy(result.title) /\ ~Truthy(result.category)
           /\ ~Truthy(result.description)
        THEN NullReport
        ELSE result

\* reportStr is [def, toks]: json.report may be undefined
StrArg(toks) == [def |-> TRUE, toks |-> toks]
UndefinedArg == [def |-> FALSE, toks |-> <<>>]

parseReportString(reportStr) ==
    IF ~reportStr.def
    THEN Threw    \* trim() throws in the try, match() throws again in the catch
    ELSE LET parsed == JSONparse(Trim(reportStr.toks)) IN
         IF parsed.ok /\ parsed.v # JsNull
         THEN Report(OrEmpty(Member(parsed.mem, "title")),
                     OrEmpty(Member(parsed.mem, "category")),
                     OrEmpty(Member(parsed.mem, "location")),
                     OrEmpty(Member(parsed.mem, "description")),
                     OrEmpty(Member(parsed.mem, "impact")))
         ELSE RegexFallback(reportStr.toks)   \* SyntaxError, or TypeError on null

\* ------------------------------------------------------------------------
\* Report texts the parser is applied to
\* ------------------------------------------------------------------------
ShortAlphabet ==
    {LBrace, RBrace, LBracket, RBracket, Comma, Colon, Ws, Nbsp, NullLit, NumLit,
     Junk, Str("title"), Str("location"), Str("x"), Str("")}

ShortTexts == UNION {[1..n -> ShortAlphabet] : n \in 0..MaxLen}

\* what a backend puts under each field: nothing, a text, an empty text, a number
Shapes == {"absent", "x", "empty", "num"}
ShapeTok(sh) == CASE sh = "x" -> Str("x") [] sh = "empty" -> Str("") [] OTHER -> NumLit

\* the members "key": value, in Fields order, comma separated
RECURSIVE ObjectBody(_, _, _)
ObjectBody(f, spaced, i) ==
    IF i > Len(Fields) THEN <<>>
    ELSE LET rest == ObjectBody(f, spaced, i + 1)
             pair == <<Str(Fields[i]), Colon>> \o (IF spaced THEN <<Ws>> ELSE <<>>)
                     \o <<ShapeTok(f[Fields[i]])>>
         IN  IF f[Fields[i]] = "absent" THEN rest
             ELSE IF rest = <<>> THEN pair ELSE pair \o <<Comma>> \o rest

Wrappers == {"json", "prose", "open", "nbsp", "array", "bare"}
Wrap(w, body) ==
    LET obj == <<LBrace>> \o body \o <<RBrace>> IN
    CASE w = "json" -> obj
      [] w = "prose" -> <<Junk, Ws>> \o obj
      [] w = "open" -> <<LBrace>> \o body
      [] w = "nbsp" -> <<Nbsp>> \o obj \o <<Ws>>
      [] w = "array" -> <<LBracket>> \o obj \o <<RBracket>>
      [] OTHER -> body

ObjectTexts ==
    {Wrap(w, ObjectBody(f, sp, 1)) :
        w \in Wrappers, f \in [FieldSet -> Shapes], sp \in BOOLEAN}

ReportTexts == ShortTexts \cup ObjectTexts

\* the characters of a token sequence, for display as a message
TokText(tok) ==
    CASE tok.k = "str" -> "\"" \o tok.s \o "\""
      [] tok.k = "ws" -> " "
      [] tok.k = "nbsp" -> "~"
      [] tok.k = "junk" -> "Here"
      [] tok.k = "num" -> tok.s
      [] OTHER -> tok.k

RECURSIVE Render(_)
Render(t) == IF t = <<>> THEN "" ELSE TokText(Head(t)) \o Render(Tail(t))

\* ------------------------------------------------------------------------
\* HTTP responses and the proxy routes
\* ------------------------------------------------------------------------
NULL == "<null>"

\* A body is text: wellFormed says whether it parses as JSON, pretty whether
\* it carries insignificant whitespace, shape and report are the JSON value.
Body(wellFormed, pretty, shape, report) ==
    [wellFormed |-> wellFormed, pretty |-> pretty, shape |-> shape, report |-> report]
NoBody == Body(FALSE, FALSE, "empty", <<>>)
HtmlBody == Body(FALSE, FALSE, "html", <<>>)

Res(status, body) == [status |-> status, body |-> body]
NoRes == Res(0, NoBody)

\* res.ok
Ok(res) == res.status >= 200 /\ res.status <= 299

\* statuses a Response may not carry a body with
NullBodyStatus == {101, 204, 205, 304}

\* what a route handler produces: a Response, or an exception
Returned(status, body) == [threw |-> FALSE, status |-> status, body |-> body]
Thrown == [threw |-> TRUE, status |-> 0, body |-> NoBody]
NoOut == [threw |-> FALSE, status |-> 0, body |-> NoBody]

\* forms: the fields appended by the uploaders
Form(kind, file, lat, lon, draft) ==
    [kind |-> kind, file |-> file, lat |-> lat, lon |-> lon, draft |-> draft]
NoForm == Form("none", NULL, 0, 0, NULL)

Request(url, headers, body) == [url |-> url, headers |-> headers, body |-> body]
NoRequest == Request(NULL, {}, NoForm)

Header(name, value) == [name |-> name, value |-> value]

\* the generate-report fetch with the key header left out
GenerateReportRequestNoKey(form, key) ==
    Request("BACKEND_BASE_URL/generate-report", {Header("accept", "application/json")}, form)

\* the fetch each route issues to the backend
GenerateReportRequest(form, key) ==
    Request("BACKEND_BASE_URL/generate-report",
            {Header("X-API-Key", key), Header("accept", "application/json")},
            form)

SubmitRequest(form, key) == Request("NEXT_PUBLIC_BACKEND_URL/submit", {}, form)

BackendRequest(rt, frm, key) ==
    IF rt = "/api/generate-report" THEN GenerateReportRequest(frm, key)
    ELSE SubmitRequest(frm, key)

\* Relay without the status option: every relayed answer is a 200
RelayWithoutStatus(res) ==
    IF ~res.body.wellFormed THEN Thrown
    ELSE Returned(200, Body(TRUE, FALSE, res.body.shape, res.body.report))

\* const json = await res.json(); return Response.json(json, {status: res.status})
Relay(res) ==
    IF ~res.body.wellFormed THEN Thrown                    \* res.json() throws
    ELSE IF res.status \in NullBodyStatus THEN Thrown      \* Response.json throws
    ELSE Returned(res.status, Body(TRUE, FALSE, res.body.shape, res.body.report))

\* what the browser's fetch resolves with: the route's Response, or the
\* framework's answer to a handler that threw
ClientView(out) == IF out.threw THEN Res(500, HtmlBody) ELSE Res(out.status, out.body)

\* ------------------------------------------------------------------------
\* State
\* ------------------------------------------------------------------------
VARIABLES
    reportStr,     \* the argument parseReportString is applied to
    parsed,        \* its outcome
    route,         \* the proxy route handling a request
    form,          \* the incoming form
    apiKey,        \* process.env.BACKEND_API_KEY
    hpc,           \* the route handler's position
    backendReq,    \* the request forwarded to the backend
    backendRes,    \* the backend's response
    response,      \* what the handler produced
    page,          \* the component mounted in the browser tab
    geoSupported,  \* navigator.geolocation is present
    file, preview, loading, message, parsedReport,   \* uploader state
    draft,         \* draft uploader: the generated draft
    alerted,       \* draft uploader: text of the last alert()
    locations, error,                                \* dashboard state
    locale,        \* the browser's default locale
    runs,          \* invocations of async handlers that are awaiting
    started,       \* number of invocations so far
    done,          \* the invocation that finished last
    storage,       \* paths held by the storage bucket
    issued         \* operations issued against external services

parseVars == <<reportStr, parsed>>
proxyVars == <<route, form, apiKey, hpc, backendReq, backendRes, response>>
appVars == <<page, geoSupported, file, preview, loading, message, parsedReport, draft,
             alerted, locations, error, locale, runs, started, done, storage, issued>>
vars == <<parseVars, proxyVars, appVars>>

\* ------------------------------------------------------------------------
\* The parser applied to a report text
\* ------------------------------------------------------------------------
ParseIdle == reportStr = UndefinedArg /\ parsed = Pending

ParseInit ==
    /\ reportStr \in {StrArg(t) : t \in ReportTexts} \cup {UndefinedArg}
    /\ parsed = Pending

CallParse ==
    /\ parsed = Pending
    /\ parsed' = parseReportString(reportStr)
    /\ UNCHANGED <<reportStr, proxyVars, appVars>>

\* ------------------------------------------------------------------------
\* What the environment can supply
\* ------------------------------------------------------------------------
FileNames == {"a.jpg", "b.jpg"}
\* Math.floor(100000 + Math.random() * 900000): the least and the greatest
MainIds == {100000, 999999}
Positions == {<<40, -74>>, <<41, -73>>}     \* <<latitude, longitude>>
Statuses == {200, 201, 400, 404, 500, 503}
Routes == {"/api/generate-report", "/api/submit"}
ApiKeys == {"key-1", "undefined"}    \* the variable set, or missing

FieldsOf(ti, lo) ==
    [f \in FieldSet |-> IF f = "title" THEN ti ELSE IF f = "location" THEN lo ELSE "absent"]

\* report strings a backend answers with
ReportSamples ==
    { <<>>,                                                   \* empty report
      <<Junk, Ws, Junk>>,                                     \* plain prose
      Wrap("json", ObjectBody(FieldsOf("x", "x"), TRUE, 1)),  \* JSON-encoded fields
      Wrap("prose", ObjectBody(FieldsOf("x", "absent"), FALSE, 1)),
      Wrap("prose", ObjectBody(FieldsOf("absent", "x"), FALSE, 1)),
      <<LBrace, RBrace>> }                                    \* JSON with no field

JsonBodies ==
    {Body(TRUE, pr, "report", r) : pr \in BOOLEAN, r \in ReportSamples}
    \cup {Body(TRUE, pr, sh, <<>>) : pr \in BOOLEAN, sh \in {"acknowledgement", "service_request_id"}}

BackendResponses ==
    {Res(st, b) : st \in Statuses, b \in JsonBodies \cup {HtmlBody}}
    \cup {Res(204, NoBody)}

PublicUrl(path) == "https://storage/public/" \o path

Forms ==
    {Form("report", PublicUrl(f), c[1], c[2], NULL) : f \in FileNames, c \in Positions}
    \cup {Form("submit", f, c[1], c[2], "draft") : f \in FileNames, c \in Positions}

\* ------------------------------------------------------------------------
\* The proxy routes handling one request
\* ------------------------------------------------------------------------
ProxyIdle ==
    /\ route = NULL /\ form = NoForm /\ apiKey = NULL /\ hpc = "idle"
    /\ backendReq = NoRequest /\ backendRes = NoRes /\ response = NoOut

ProxyInit ==
    /\ route \in Routes
    /\ form \in Forms
    /\ apiKey \in ApiKeys
    /\ hpc = "formData"
    /\ backendReq = NoRequest /\ backendRes = NoRes /\ response = NoOut

\* await req.formData(); fetch(backend, ...)
Forward ==
    /\ hpc = "formData"
    /\ backendReq' = BackendRequest(route, form, apiKey)
    /\ hpc' = "fetch"
    /\ UNCHANGED <<route, form, apiKey, backendRes, response, parseVars, appVars>>

\* the backend answers
BackendResponds ==
    /\ hpc = "fetch"
    /\ \E b \in BackendResponses : backendRes' = b
    /\ hpc' = "json"
    /\ UNCHANGED <<route, form, apiKey, backendReq, response, parseVars, appVars>>

\* the backend cannot be reached: fetch rejects and the handler throws
BackendUnreachable ==
    /\ hpc = "fetch"
    /\ response' = Thrown
    /\ hpc' = "done"
    /\ UNCHANGED <<route, form, apiKey, backendReq, backendRes, parseVars, appVars>>

\* await res.json(); return Response.json(json, { status: res.status })
Respond ==
    /\ hpc = "json"
    /\ response' = Relay(backendRes)
    /\ hpc' = "done"
    /\ UNCHANGED <<route, form, apiKey, backendReq, backendRes, parseVars, appVars>>

ProxyNext == Forward \/ BackendResponds \/ BackendUnreachable \/ Respond

\* ------------------------------------------------------------------------
\* Promises the handlers await
\* ------------------------------------------------------------------------
\* a value that can be thrown: instanceof Error or not, and its message
Err(isError, msg) == [isError |-> isError, message |-> msg]
NoErr == Err(FALSE, "")

Resolved(lat, lon) == [ok |-> TRUE, lat |-> lat, lon |-> lon, err |-> NoErr]
Rejected(err) == [ok |-> FALSE, lat |-> 0, lon |-> 0, err |-> err]

\* GeolocationPositionError is not an Error
PositionErrors ==
    {Err(FALSE, m) : m \in {"PERMISSION_DENIED", "POSITION_UNAVAILABLE", "TIMEOUT"}}

\* an operation issued against an external service, as a handler logs it
Op(op, target, frm) == [op |-> op, target |-> target, form |-> frm]
Issue(svc, op, target) == [svc |-> svc, op |-> op, target |-> target]

\* getLocation asking for the position a second time
getLocationRequestsTwice(supported) ==
    IF ~supported THEN <<>>
    ELSE <<Op("getCurrentPosition", "navigator.geolocation", NoForm),
           Op("getCurrentPosition", "navigator.geolocation", NoForm)>>

\* getLocation(): the position request it issues, and how its promise settles
getLocationRequests(supported) ==
    IF ~supported THEN <<>>
    ELSE <<Op("getCurrentPosition", "navigator.geolocation", NoForm)>>

getLocationIssued(supported) ==
    IF ~supported THEN {}
    ELSE {Issue("geolocation", "getCurrentPosition", "navigator.geolocation")}

\* getLocation resolving with latitude and longitude exchanged
getLocationSwapped(supported) ==
    IF ~supported THEN {Rejected(Err(TRUE, "Geolocation not supported"))}
    ELSE {Resolved(c[2], c[1]) : c \in Positions}
         \cup {Rejected(e) : e \in PositionErrors}

getLocation(supported) ==
    IF ~supported THEN {Rejected(Err(TRUE, "Geolocation not supported"))}
    ELSE {Resolved(c[1], c[2]) : c \in Positions}
         \cup {Rejected(e) : e \in PositionErrors}

\* supabase.storage.from(BUCKET_NAME).upload: { data, error }
UploadErrors == {"The resource already exists", "new row violates row-level security policy"}
UploadResults == {NULL} \cup UploadErrors

\* what fetch("/api/...") can resolve with, through the proxy route
Proxied(backend) == {ClientView(Relay(b)) : b \in backend} \cup {ClientView(Thrown)}

\* ------------------------------------------------------------------------
\* Invocations of the async handlers
\* ------------------------------------------------------------------------
\* file and draft are the values the handler closed over; mainId is the
\* number submit draws when it starts; res is the response
\* it received and parsed what parseReportString makes of its body; failedAt
\* and err say where it threw and what was caught
Run(fn, pc, f, d, log) ==
    [fn |-> fn, pc |-> pc, file |-> f, draft |-> d, mainId |-> 0, lat |-> 0, lon |-> 0,
     filePath |-> NULL, res |-> NoRes, parsed |-> Pending, log |-> log,
     failedAt |-> "", err |-> NoErr]
NoRun == Run("none", "done", NULL, NULL, <<>>)

NewRun(fn, f, d, log) == Run(fn, "awaitLocation", f, d, log)

Remove(seq, i) == SubSeq(seq, 1, i - 1) \o SubSeq(seq, i + 1, Len(seq))

Finished(run) == [run EXCEPT !.pc = "done"]
Failed(run, at, err) == [run EXCEPT !.pc = "done", !.failedAt = at, !.err = err]

InFlight(fn) == {i \in 1..Len(runs) : runs[i].fn = fn}

\* the catch without its instanceof test
CatchMessageRaw(err) == err.message

\* } catch (err) { setMessage(err instanceof Error ? err.message : "Unknown error") }
CatchMessage(err) == IF err.isError THEN err.message ELSE "Unknown error"

\* ------------------------------------------------------------------------
\* The uploader (current version): state after mount, and what is rendered
\* ------------------------------------------------------------------------
Pages == {"uploader", "draft", "dashboard"}

\* navigator.language, which toLocaleString('default', ...) formats with
Locales == {"en-US", "fr-FR"}

AppIdle ==
    /\ page = NULL /\ geoSupported = FALSE
    /\ file = NULL /\ preview = NULL /\ loading = FALSE /\ message = NULL
    /\ parsedReport = NullReport /\ draft = NULL /\ alerted = NULL
    /\ locations = <<>> /\ error = NULL /\ locale = "en-US"
    /\ runs = <<>> /\ started = 0 /\ done = NoRun /\ storage = {} /\ issued = {}

AppInit ==
    /\ page \in Pages
    /\ geoSupported \in BOOLEAN
    /\ file = NULL /\ preview = NULL /\ message = NULL
    /\ loading = (page = "dashboard")      \* useState(true) in the dashboard
    /\ parsedReport = NullReport /\ draft = NULL /\ alerted = NULL
    /\ locations = <<>> /\ error = NULL
    /\ locale \in (IF page = "dashboard" THEN Locales ELSE {"en-US"})
    /\ runs = <<>> /\ started = 0 /\ done = NoRun
    /\ storage \in {{}, {"a.jpg"}}         \* objects left by earlier sessions
    /\ issued = {}

ReportShown == parsedReport.kind = "report"            \* {parsedReport && ...}
UploadSectionRendered == ~ReportShown                  \* {!parsedReport && ...}
FileInputRendered == ~ReportShown /\ preview = NULL
SubmitButtonRendered == ~ReportShown /\ preview # NULL
SubmitButtonNeverDisabled == SubmitButtonRendered        \* the button without disabled
SubmitButtonEnabled == SubmitButtonRendered /\ ~loading   \* disabled={loading}
MessageShownBesideReport == message # NULL /\ message # ""   \* without !parsedReport
MessageShown == message # NULL /\ message # "" /\ ~ReportShown

\* the storage path with the run's mainId as its folder
FilePathUnderMainId(run) == ToString(run.mainId) \o "/" \o run.file

\* the storage path of an upload:  const filePath = `${file.name}`
FilePath(run) == run.file

\* the form with latitude and longitude exchanged
SubmitFormSwapped(run) == Form("report", PublicUrl(run.filePath), run.lon, run.lat, NULL)

\* fd.append("file", imageUrl); latitude; longitude
SubmitForm(run) == Form("report", PublicUrl(run.filePath), run.lat, run.lon, NULL)

\* the upload recorded as a row of the table instead
UploadAsRow(path) == Issue("table", "insert", "items")

\* supabase.storage.from(BUCKET_NAME).upload(filePath, file)
UploadTo(path) == Issue("storage", "upload", path)

\* fetch(url, { method: "POST", body: fd })
PostTo(url) == Issue("fetch", "POST", url)

\* what fetch() can settle with; FetchRejected is a network failure, and
\* Truncated an answer whose body is lost while res.json() reads it
FetchRejected == Res(-1, NoBody)
Truncated == Res(200, NoBody)
FetchOutcomes == Proxied(BackendResponses) \cup {FetchRejected, Truncated}

otherPagesVars == <<page, geoSupported, draft, alerted, locations, error, locale>>

\* the user picks a photo; the effect on [file] then builds the preview URL
handleFile(f) ==
    /\ page = "uploader"
    /\ FileInputRendered
    /\ file' = f
    /\ message' = NULL
    /\ parsedReport' = NullReport
    /\ preview' = f
    /\ UNCHANGED <<loading, runs, started, done, storage, issued>>
    /\ UNCHANGED <<otherPagesVars, parseVars, proxyVars>>

\* submit() up to its first await:  if (!file) return; setLoading(true);
\* const mainId = ...; getLocation()
submitCalled ==
    /\ page = "uploader"
    /\ started < MaxRuns
    /\ IF file = NULL
       THEN UNCHANGED <<loading, runs, started, issued>>
       ELSE /\ loading' = TRUE
            /\ \E id \in MainIds :
                  runs' = Append(runs, [NewRun("submit", file, NULL,
                                               getLocationRequests(geoSupported))
                                          EXCEPT !.mainId = id])
            /\ started' = started + 1
            /\ issued' = issued \cup getLocationIssued(geoSupported)
    /\ UNCHANGED <<file, preview, message, parsedReport, done, storage>>
    /\ UNCHANGED <<otherPagesVars, parseVars, proxyVars>>

\* click on "Submit Report"
submit == SubmitButtonEnabled /\ submitCalled

\* the catch resetting the selection as the success path does
SubmitCatchClearsFile(i, res, err, at) ==
    /\ message' = CatchMessage(err)
    /\ loading' = FALSE
    /\ runs' = Remove(runs, i)
    /\ done' = Failed([runs[i] EXCEPT !.res = res], at, err)
    /\ file' = NULL /\ preview' = NULL
    /\ UNCHANGED parsedReport

\* the catch without the finally block
SubmitCatchNoFinally(i, res, err, at) ==
    /\ message' = CatchMessage(err)
    /\ UNCHANGED loading
    /\ runs' = Remove(runs, i)
    /\ done' = Failed([runs[i] EXCEPT !.res = res], at, err)
    /\ UNCHANGED <<file, preview, parsedReport>>

\* catch (err) { setMessage(...) } finally { setLoading(false) }
SubmitCatch(i, res, err, at) ==
    /\ message' = CatchMessage(err)
    /\ loading' = FALSE
    /\ runs' = Remove(runs, i)
    /\ done' = Failed([runs[i] EXCEPT !.res = res], at, err)
    /\ UNCHANGED <<file, preview, parsedReport>>

\* getLocation() settles; on success the upload is issued
submitLocationSettles(i, o) ==
    /\ runs[i].fn = "submit" /\ runs[i].pc = "awaitLocation"
    /\ IF o.ok
       THEN LET located == [runs[i] EXCEPT !.lat = o.lat, !.lon = o.lon]
                path == FilePath(located)
            IN  /\ runs' = [runs EXCEPT ![i] =
                              [located EXCEPT !.pc = "awaitUpload", !.filePath = path,
                                              !.log = Append(@, Op("upload", path, NoForm))]]
                /\ issued' = issued \cup {UploadTo(path)}
                /\ UNCHANGED <<file, preview, loading, message, parsedReport, done>>
       ELSE /\ SubmitCatch(i, NoRes, o.err, "location")
            /\ UNCHANGED issued
    /\ UNCHANGED <<started, storage>>
    /\ UNCHANGED <<otherPagesVars, parseVars, proxyVars>>

\* the upload settles; on success the form is POSTed to /api/generate-report
submitUploadSettles(i, error_) ==
    /\ runs[i].fn = "submit" /\ runs[i].pc = "awaitUpload"
    /\ IF error_ = NULL
       THEN /\ storage' = storage \cup {runs[i].filePath}
            /\ runs' = [runs EXCEPT ![i] =
                          [@ EXCEPT !.pc = "awaitPost",
                                    !.log = Append(@, Op("POST", "/api/generate-report",
                                                         SubmitForm(runs[i])))]]
            /\ issued' = issued \cup {PostTo("/api/generate-report")}
            /\ UNCHANGED <<file, preview, loading, message, parsedReport, done>>
       ELSE /\ SubmitCatch(i, runs[i].res, Err(TRUE, "File upload failed: " \o error_), "upload")
            /\ UNCHANGED <<storage, issued>>
    /\ UNCHANGED started
    /\ UNCHANGED <<otherPagesVars, parseVars, proxyVars>>

\* json.report, which a body of another shape does not have
ReportOf(body) == IF body.shape = "report" THEN StrArg(body.report) ELSE UndefinedArg

\* fetch settles:  if (!res.ok) throw new Error(`Server error ${res.status}`)
submitPostSettles(i, res) ==
    /\ runs[i].fn = "submit" /\ runs[i].pc = "awaitPost"
    /\ IF res = FetchRejected
       THEN SubmitCatch(i, NoRes, Err(TRUE, "Failed to fetch"), "post")
       ELSE IF ~Ok(res)
            THEN SubmitCatch(i, res, Err(TRUE, "Server error " \o ToString(res.status)), "status")
            ELSE /\ runs' = [runs EXCEPT ![i] =
                               [@ EXCEPT !.pc = "awaitJson", !.res = res,
                                         !.parsed = parseReportString(ReportOf(res.body))]]
                 /\ UNCHANGED <<file, preview, loading, message, parsedReport, done>>
    /\ UNCHANGED <<started, storage, issued>>
    /\ UNCHANGED <<otherPagesVars, parseVars, proxyVars>>

\* json.report || "Success!"
ReportOrSuccess(report) ==
    IF report.def /\ report.toks # <<>> THEN Render(report.toks) ELSE "Success!"

\* const parsed = parseReportString(json.report): the run holds it from the
\* arrival of the response, of whose body it is a function
ParsedOf(run) == run.parsed

\* res.json() settles; the report is parsed and displayed
submitJsonSettles(i) ==
    /\ runs[i].fn = "submit" /\ runs[i].pc = "awaitJson"
    /\ IF ~runs[i].res.body.wellFormed
       THEN SubmitCatch(i, runs[i].res, Err(TRUE, "Unexpected end of JSON input"), "json")
       ELSE IF ParsedOf(runs[i]).kind = "throw"
            THEN SubmitCatch(i, runs[i].res, Err(TRUE, "Cannot read properties of undefined"),
                             "parse")
            ELSE /\ IF ParsedOf(runs[i]).kind = "report"
                    THEN /\ parsedReport' = ParsedOf(runs[i])
                         /\ message' = "Report generated successfully!"
                    ELSE /\ message' = ReportOrSuccess(ReportOf(runs[i].res.body))
                         /\ UNCHANGED parsedReport
                 /\ file' = NULL
                 /\ preview' = NULL
                 /\ loading' = FALSE
                 /\ runs' = Remove(runs, i)
                 /\ done' = Finished(runs[i])
    /\ UNCHANGED <<started, storage, issued>>
    /\ UNCHANGED <<otherPagesVars, parseVars, proxyVars>>

\* click on "Create New Report"
resetReport ==
    /\ page = "uploader"
    /\ ReportShown
    /\ parsedReport' = NullReport
    /\ message' = NULL
    /\ UNCHANGED <<file, preview, loading, runs, started, done, storage, issued>>
    /\ UNCHANGED <<otherPagesVars, parseVars, proxyVars>>

\* an awaited call of a run of submit settles
UploaderSettles ==
    \/ \E i \in 1..Len(runs) : \E o \in getLocation(geoSupported) : submitLocationSettles(i, o)
    \/ \E i \in 1..Len(runs) : \E e \in UploadResults : submitUploadSettles(i, e)
    \/ \E i \in 1..Len(runs) : \E r \in FetchOutcomes : submitPostSettles(i, r)
    \/ \E i \in 1..Len(runs) : submitJsonSettles(i)

UploaderNext ==
    \/ \E f \in FileNames : handleFile(f)
    \/ submit
    \/ UploaderSettles
    \/ resetReport

\* ------------------------------------------------------------------------
\* The draft uploader (earlier version of the component)
\* ------------------------------------------------------------------------
\* preview stands for previewUrl here
DraftButtonEnabled == preview # NULL /\ draft = NULL /\ ~loading
SubmitTo311Rendered == draft # NULL                     \* {draft && ( ... )}

\* what fetch("/api/draft") can settle with
DraftBody == Body(TRUE, FALSE, "draft", <<>>)
DraftOutcomes == {Res(200, DraftBody), Res(500, HtmlBody), FetchRejected}

\* what fetch("/api/submit") can settle with: the 311 backend sends no report
SubmitBackendResponses == {b \in BackendResponses : b.body.shape # "report"}
SubmitOutcomes == Proxied(SubmitBackendResponses) \cup {FetchRejected}

\* the DraftResponse a body holds:  const json: DraftResponse = await res.json()
DraftOf(body) == body.shape

DraftForm(run) == Form("draft", run.file, run.lat, run.lon, NULL)
ReportForm(run) == Form("submit", run.file, run.lat, run.lon, run.draft)

uploaderOnlyVars == <<message, parsedReport, storage>>
idlePagesVars == <<page, geoSupported, locations, error, locale>>

onFileChange(f) ==
    /\ page = "draft"
    /\ preview = NULL
    /\ file' = f
    /\ preview' = f
    /\ UNCHANGED <<loading, draft, alerted, runs, started, done, issued>>
    /\ UNCHANGED <<uploaderOnlyVars, idlePagesVars, parseVars, proxyVars>>

\* generateDraft() up to its first await
generateDraftCalled ==
    /\ page = "draft"
    /\ started < MaxDraftRuns
    /\ IF file = NULL
       THEN UNCHANGED <<loading, runs, started, issued>>
       ELSE /\ loading' = TRUE
            /\ runs' = Append(runs, NewRun("generateDraft", file, NULL,
                                           getLocationRequests(geoSupported)))
            /\ started' = started + 1
            /\ issued' = issued \cup getLocationIssued(geoSupported)
    /\ UNCHANGED <<file, preview, draft, alerted, done>>
    /\ UNCHANGED <<uploaderOnlyVars, idlePagesVars, parseVars, proxyVars>>

\* click on "Generate Draft"
generateDraft == DraftButtonEnabled /\ generateDraftCalled

\* catch (err) { alert(...) } finally { setLoading(false) }
DraftCatch(i, res, err, at) ==
    /\ alerted' = CatchMessage(err)
    /\ loading' = FALSE
    /\ runs' = Remove(runs, i)
    /\ done' = Failed([runs[i] EXCEPT !.res = res], at, err)
    /\ UNCHANGED draft

draftLocationSettles(i, o) ==
    /\ runs[i].fn = "generateDraft" /\ runs[i].pc = "awaitLocation"
    /\ IF o.ok
       THEN LET located == [runs[i] EXCEPT !.lat = o.lat, !.lon = o.lon] IN
            /\ runs' = [runs EXCEPT ![i] =
                          [located EXCEPT !.pc = "awaitPost",
                                          !.log = Append(@, Op("POST", "/api/draft",
                                                               DraftForm(located)))]]
            /\ issued' = issued \cup {PostTo("/api/draft")}
            /\ UNCHANGED <<loading, draft, alerted, done>>
       ELSE /\ DraftCatch(i, NoRes, o.err, "location")
            /\ UNCHANGED issued
    /\ UNCHANGED <<file, preview, started>>
    /\ UNCHANGED <<uploaderOnlyVars, idlePagesVars, parseVars, proxyVars>>

draftPostSettles(i, res) ==
    /\ runs[i].fn = "generateDraft" /\ runs[i].pc = "awaitPost"
    /\ IF res = FetchRejected
       THEN DraftCatch(i, NoRes, Err(TRUE, "Failed to fetch"), "post")
       ELSE IF ~Ok(res)
            THEN DraftCatch(i, res, Err(TRUE, "Draft failed"), "status")
            ELSE /\ runs' = [runs EXCEPT ![i] = [@ EXCEPT !.pc = "awaitJson", !.res = res]]
                 /\ UNCHANGED <<loading, draft, alerted, done>>
    /\ UNCHANGED <<file, preview, started, issued>>
    /\ UNCHANGED <<uploaderOnlyVars, idlePagesVars, parseVars, proxyVars>>

draftJsonSettles(i) ==
    /\ runs[i].fn = "generateDraft" /\ runs[i].pc = "awaitJson"
    /\ IF ~runs[i].res.body.wellFormed
       THEN DraftCatch(i, runs[i].res, Err(TRUE, "Unexpected end of JSON input"), "json")
       ELSE /\ draft' = DraftOf(runs[i].res.body)
            /\ loading' = FALSE
            /\ runs' = Remove(runs, i)
            /\ done' = Finished(runs[i])
            /\ UNCHANGED alerted
    /\ UNCHANGED <<file, preview, started, issued>>
    /\ UNCHANGED <<uploaderOnlyVars, idlePagesVars, parseVars, proxyVars>>

\* click on "Submit to 311" (the button is not disabled while a run awaits)
submitReport ==
    /\ page = "draft"
    /\ SubmitTo311Rendered
    /\ started < MaxDraftRuns
    /\ IF draft = NULL \/ file = NULL
       THEN UNCHANGED <<runs, started, issued>>
       ELSE /\ runs' = Append(runs, NewRun("submitReport", file, draft,
                                           getLocationRequests(geoSupported)))
            /\ started' = started + 1
            /\ issued' = issued \cup getLocationIssued(geoSupported)
    /\ UNCHANGED <<file, preview, loading, draft, alerted, done>>
    /\ UNCHANGED <<uploaderOnlyVars, idlePagesVars, parseVars, proxyVars>>

\* catch (err) { alert(...) }
ReportCatch(i, res, err, at) ==
    /\ alerted' = CatchMessage(err)
    /\ runs' = Remove(runs, i)
    /\ done' = Failed([runs[i] EXCEPT !.res = res], at, err)
    /\ UNCHANGED <<file, preview, draft>>

reportLocationSettles(i, o) ==
    /\ runs[i].fn = "submitReport" /\ runs[i].pc = "awaitLocation"
    /\ IF o.ok
       THEN LET located == [runs[i] EXCEPT !.lat = o.lat, !.lon = o.lon] IN
            /\ runs' = [runs EXCEPT ![i] =
                          [located EXCEPT !.pc = "awaitPost",
                                          !.log = Append(@, Op("POST", "/api/submit",
                                                               ReportForm(located)))]]
            /\ issued' = issued \cup {PostTo("/api/submit")}
            /\ UNCHANGED <<file, preview, draft, alerted, done>>
       ELSE /\ ReportCatch(i, NoRes, o.err, "location")
            /\ UNCHANGED issued
    /\ UNCHANGED <<loading, started>>
    /\ UNCHANGED <<uploaderOnlyVars, idlePagesVars, parseVars, proxyVars>>

reportPostSettles(i, res) ==
    /\ runs[i].fn = "submitReport" /\ runs[i].pc = "awaitPost"
    /\ IF res = FetchRejected
       THEN ReportCatch(i, NoRes, Err(TRUE, "Failed to fetch"), "post")
       ELSE IF ~Ok(res)
            THEN ReportCatch(i, res, Err(TRUE, "Submit failed"), "status")
            ELSE /\ runs' = [runs EXCEPT ![i] = [@ EXCEPT !.pc = "awaitJson", !.res = res]]
                 /\ UNCHANGED <<file, preview, draft, alerted, done>>
    /\ UNCHANGED <<loading, started, issued>>
    /\ UNCHANGED <<uploaderOnlyVars, idlePagesVars, parseVars, proxyVars>>

\* const { service_request_id } = await res.json(); alert; reset UI
reportJsonSettles(i) ==
    /\ runs[i].fn = "submitReport" /\ runs[i].pc = "awaitJson"
    /\ IF ~runs[i].res.body.wellFormed
       THEN ReportCatch(i, runs[i].res, Err(TRUE, "Unexpected end of JSON input"), "json")
       ELSE /\ alerted' = "Success! 311 SR #: " \o
                          (IF runs[i].res.body.shape = "service_request_id"
                           THEN "SR-1" ELSE "undefined")
            /\ file' = NULL
            /\ draft' = NULL
            /\ preview' = NULL
            /\ runs' = Remove(runs, i)
            /\ done' = Finished(runs[i])
    /\ UNCHANGED <<loading, started, issued>>
    /\ UNCHANGED <<uploaderOnlyVars, idlePagesVars, parseVars, proxyVars>>

\* an awaited call of a run of generateDraft or submitReport settles
DraftSettles ==
    \/ \E i \in 1..Len(runs) : \E o \in getLocation(geoSupported) : draftLocationSettles(i, o)
    \/ \E i \in 1..Len(runs) : \E r \in DraftOutcomes : draftPostSettles(i, r)
    \/ \E i \in 1..Len(runs) : draftJsonSettles(i)
    \/ \E i \in 1..Len(runs) : \E o \in getLocation(geoSupported) : reportLocationSettles(i, o)
    \/ \E i \in 1..Len(runs) : \E r \in SubmitOutcomes : reportPostSettles(i, r)
    \/ \E i \in 1..Len(runs) : reportJsonSettles(i)

DraftNext ==
    \/ \E f \in FileNames : onFileChange(f)
    \/ generateDraft
    \/ submitReport
    \/ DraftSettles

\* ------------------------------------------------------------------------
\* The dashboard: rows of the 'items' table
\* ------------------------------------------------------------------------
\* a numeric column: a number, or null
Coord(n) == [def |-> TRUE, n |-> n]
NoCoord == [def |-> FALSE, n |-> 0]

\* data as Location[]: the cast checks nothing, so a column holds whatever
\* the table returns; category and timestamp are JavaScript values
Row(id, category, latitude, longitude, timestamp) ==
    [id |-> id, category |-> category, latitude |-> latitude, longitude |-> longitude,
     timestamp |-> timestamp]

\* timestamps as the table returns them (mid-month, so that the month is the
\* same in every time zone), and a text that is no date
TsJan == "2025-01-15T09:30:00+00:00"
TsJun == "2025-06-21T14:03:11+00:00"
TsJul == "2025-07-12T08:45:00+00:00"
TsBad == "yesterday"

Rows ==
    { Row("1", JsStr("pothole"), Coord(40), Coord(-74), JsStr(TsJun)),
      Row("2", JsStr("pothole"), Coord(41), Coord(-73), JsStr(TsJul)),
      Row("3", JsStr("graffiti"), Coord(40), Coord(-74), JsStr(TsJan)),
      Row("4", JsNull, Coord(41), Coord(-73), JsNull),
      Row("5", JsStr("null"), Coord(40), Coord(-74), JsStr("")),
      Row("6", Undefined, Coord(41), Coord(-73), JsStr(TsBad)),
      Row("7", JsStr(""), NoCoord, Coord(-74), JsStr(TsJun)),
      Row("8", JsStr("graffiti"), Coord(40), NoCoord, Undefined) }

RowLists == UNION {[1..n -> Rows] : n \in 0..MaxRows}

\* ------------------------------------------------------------------------
\* Date, as far as edaData uses it
\* ------------------------------------------------------------------------
Date(valid, year, month) == [valid |-> valid, year |-> year, month |-> month]
InvalidDate == Date(FALSE, 0, 0)

\* dateObj.toLocaleString('default', { month: 'short' }), accents left out
MonthShort(loc) ==
    IF loc = "en-US"
    THEN <<"Jan", "Feb", "Mar", "Apr", "May", "Jun",
           "Jul", "Aug", "Sep", "Oct", "Nov", "Dec">>
    ELSE <<"janv.", "fevr.", "mars", "avr.", "mai", "juin",
           "juil.", "aout", "sept.", "oct.", "nov.", "dec.">>

\* `${dateObj.toLocaleString(...)} ${dateObj.getFullYear()}`; an Invalid Date
\* formats as "Invalid Date" and its year is NaN, nothing throws
MonthYear(dateObj, loc) ==
    IF dateObj.valid
    THEN MonthShort(loc)[dateObj.month] \o " " \o ToString(dateObj.year)
    ELSE "Invalid Date NaN"

\* the texts new Date(text) understands: the timestamps above, and
\* "<English month> <year>"
Parseable ==
    { <<TsJan, Date(TRUE, 2025, 1)>>, <<TsJun, Date(TRUE, 2025, 6)>>,
      <<TsJul, Date(TRUE, 2025, 7)>> }
    \cup { <<MonthYear(Date(TRUE, 2025, m), "en-US"), Date(TRUE, 2025, m)>> : m \in 1..12 }

NewDate(text) ==
    LET hits == {p \in Parseable : p[1] = text} IN
    IF hits = {} THEN InvalidDate ELSE (CHOOSE p \in hits : TRUE)[2]

\* getTime(): [nan, t]
Time(t) == [nan |-> FALSE, t |-> t]
NaN == [nan |-> TRUE, t |-> 0]
GetTime(dateObj) == IF dateObj.valid THEN Time(dateObj.year * 12 + dateObj.month) ELSE NaN

\* ------------------------------------------------------------------------
\* edaData
\* ------------------------------------------------------------------------
\* the property key a value is converted to:  obj[value]
PropertyKey(v) ==
    CASE v.t = "null" -> "null"
      [] v.t = "undef" -> "undefined"
      [] OTHER -> v.s

Entry(key, count) == [key |-> key, count |-> count]

\* obj[key] = (obj[key] || 0) + 1; an object lists its keys in insertion order
Increment(obj, key) ==
    IF \E i \in 1..Len(obj) : obj[i].key = key
    THEN [i \in 1..Len(obj) |->
             IF obj[i].key = key THEN Entry(key, obj[i].count + 1) ELSE obj[i]]
    ELSE Append(obj, Entry(key, 1))

\* the comparators of the two sorts, as the sign sort() acts on (NaN is +0)
Sign(n) == IF n > 0 THEN 1 ELSE IF n < 0 THEN -1 ELSE 0

ByCountDescending(a, b) == Sign(b.count - a.count)

Chronologically(a, b) ==
    LET ta == GetTime(NewDate(a.key))
        tb == GetTime(NewDate(b.key))
    IN  IF ta.nan \/ tb.nan THEN 0 ELSE Sign(ta.t - tb.t)

Compare(order, a, b) ==
    IF order = "count" THEN ByCountDescending(a, b) ELSE Chronologically(a, b)

\* Array.prototype.sort: a stable insertion sort
RECURSIVE InsertAt(_, _, _, _)
InsertAt(sorted, x, j, order) ==
    IF j >= 1 /\ Compare(order, sorted[j], x) > 0
    THEN InsertAt(sorted, x, j - 1, order)
    ELSE SubSeq(sorted, 1, j) \o <<x>> \o SubSeq(sorted, j + 1, Len(sorted))

RECURSIVE SortFrom(_, _, _)
SortFrom(sorted, rest, order) ==
    IF rest = <<>> THEN sorted
    ELSE SortFrom(InsertAt(sorted, Head(rest), Len(sorted), order), Tail(rest), order)

Sort(entries, order) == SortFrom(<<>>, entries, order)

\* locations.forEach(loc => { locationsPerCategory[loc.category] = ... })
RECURSIVE LocationsPerCategory(_, _)
LocationsPerCategory(locs, obj) ==
    IF locs = <<>> THEN obj
    ELSE LocationsPerCategory(Tail(locs), Increment(obj, PropertyKey(Head(locs).category)))

\* locations.forEach(loc => { if (loc.timestamp) { try { ... } catch ... } })
RECURSIVE LocationsByMonth(_, _, _)
LocationsByMonth(locs, obj, loc) ==
    IF locs = <<>> THEN obj
    ELSE LET ts == Head(locs).timestamp IN
         IF Truthy(ts)
         THEN LocationsByMonth(Tail(locs),
                               Increment(obj, MonthYear(NewDate(ts.s), loc)), loc)
         ELSE LocationsByMonth(Tail(locs), obj, loc)

\* useMemo(() => { ... }, [locations]), without the two averages
EdaData(locs, loc) ==
    [totalLocations |-> Len(locs),
     uniqueCategories |-> Cardinality({locs[i].category : i \in 1..Len(locs)}),
     sortedCategories |-> Sort(LocationsPerCategory(locs, <<>>), "count"),
     sortedMonths |-> Sort(LocationsByMonth(locs, <<>>, loc), "time")]

edaData == EdaData(locations, locale)

\* ------------------------------------------------------------------------
\* The dashboard: fetch on mount, and what is rendered
\* ------------------------------------------------------------------------
\* how supabase.from('items').select('*') settles: rows, an error, or a throw
SelectData(rows) == [data |-> rows, error |-> NULL, threw |-> FALSE]
SelectError(msg) == [data |-> <<>>, error |-> msg, threw |-> FALSE]
SelectThrew(msg) == [data |-> <<>>, error |-> msg, threw |-> TRUE]
SelectOutcomes ==
    {SelectData(rows) : rows \in RowLists}
    \cup {SelectError("permission denied for table items"), SelectThrew("Failed to fetch")}

uploaderVars == <<file, preview, message, parsedReport, draft, alerted, storage>>

\* supabase.from(table).select('*')
SelectAll(table) == Issue("table", "select", table)

\* if (loading) return <loading view>;  if (error) return <error view>
LoadingView == loading
ErrorView == ~loading /\ error # NULL /\ error # ""
DashboardRendered == page = "dashboard" /\ ~LoadingView /\ ~ErrorView

Position(lat, lon) == [lat |-> lat, lon |-> lon]

\* locations.length > 0 ? [locations[0].latitude, locations[0].longitude] : [0, 0]
defaultCenter ==
    IF Len(locations) > 0
    THEN Position(locations[1].latitude, locations[1].longitude)
    ELSE Position(Coord(0), Coord(0))

\* locations.map(location => <Marker position={[latitude, longitude]} />)
Markers ==
    [i \in 1..Len(locations) |-> Position(locations[i].latitude, locations[i].longitude)]

\* the mount effect: fetchLocations() up to its await
fetchLocations ==
    /\ page = "dashboard"
    /\ started = 0
    /\ loading' = TRUE
    /\ runs' = Append(runs, Run("fetchLocations", "awaitSelect", NULL, NULL,
                                <<Op("select", "items", NoForm)>>))
    /\ started' = started + 1
    /\ issued' = issued \cup {SelectAll("items")}
    /\ UNCHANGED <<page, geoSupported, locations, error, locale, done>>
    /\ UNCHANGED <<uploaderVars, parseVars, proxyVars>>

\* the fetch without its finally block: loading is left as it is
FinallyLoadingKept == loading

\* finally { setLoading(false) }
FinallyLoading == FALSE

selectSettles(i, o) ==
    /\ runs[i].fn = "fetchLocations" /\ runs[i].pc = "awaitSelect"
    /\ IF o.threw \/ o.error # NULL
       THEN /\ error' = o.error                  \* setError(err.message)
            /\ UNCHANGED locations
            /\ done' = Failed(runs[i], "select", Err(TRUE, o.error))
       ELSE /\ locations' = o.data               \* setLocations(data)
            /\ UNCHANGED error
            /\ done' = Finished(runs[i])
    /\ loading' = FinallyLoading
    /\ runs' = Remove(runs, i)
    /\ UNCHANGED <<page, geoSupported, locale, started, issued>>
    /\ UNCHANGED <<uploaderVars, parseVars, proxyVars>>

DashboardNext ==
    \/ fetchLocations
    \/ \E i \in 1..Len(runs) : \E o \in SelectOutcomes : selectSettles(i, o)

\* ------------------------------------------------------------------------
\* Specifications
\* ------------------------------------------------------------------------
Init == AppInit /\ ProxyIdle /\ ParseIdle
Next == UploaderNext \/ DraftNext \/ DashboardNext
Spec == Init /\ [][Next]_vars

\* one request handled by a proxy route
InitProxy == ProxyInit /\ AppIdle /\ ParseIdle
\* one page at a time
InitUploader == Init /\ page = "uploader"
SpecUploader == InitUploader /\ [][UploaderNext]_vars

\* every awaited call settles: the position request has a timeout, fetch,
\* the upload and res.json() are promises of the browser
FairUploader == SpecUploader /\ WF_vars(UploaderSettles)

InitDraft == Init /\ page = "draft"
SpecDraft == InitDraft /\ [][DraftNext]_vars

InitDashboard == Init /\ page = "dashboard"
SpecDashboard == InitDashboard /\ [][DashboardNext]_vars
\* the select is a promise of the client library: it settles
FairDashboard == SpecDashboard /\ WF_vars(DashboardNext)

SpecProxy == InitProxy /\ [][ProxyNext]_vars

\* parseReportString applied to one report text
InitParse == ParseInit /\ AppIdle /\ ProxyIdle
NextParse == CallParse
SpecParse == InitParse /\ [][NextParse]_vars

\* ------------------------------------------------------------------------
\* Properties
\* ------------------------------------------------------------------------
SameJson(a, b) ==
    a.wellFormed /\ b.wellFormed /\ a.shape = b.shape /\ a.report = b.report

HasApiKey(req) == \E h \in req.headers : h.name = "X-API-Key"

Relayed == hpc = "done" /\ backendRes # NoRes

\* C1 (as stated): whatever the backend answered, the route returns the
\* backend's status and the backend's JSON body, never anything of its own.
C1_RelaysEveryResponse ==
    Relayed =>
        /\ ~response.threw
        /\ response.status = backendRes.status
        /\ SameJson(response.body, backendRes.body)

\* C1 (amended): a backend answer whose body parses as JSON is returned with
\* the backend's status, 2xx or not, and the same JSON value; for a body
\* that does not parse the handler throws and relays nothing.
C1_RelaysJsonResponses ==
    Relayed =>
        IF backendRes.body.wellFormed
        THEN /\ ~response.threw
             /\ response.status = backendRes.status
             /\ SameJson(response.body, backendRes.body)
        ELSE response = Thrown

C1_Witness ==
    /\ Relayed
    /\ backendRes.status = 404
    /\ backendRes.body.wellFormed /\ backendRes.body.pretty
    /\ response.status = 404

\* C2 (as stated): every request a proxy route forwards carries the API key
\* header, on the generate-report route and on the submit route alike.
C2_EveryForwardCarriesApiKey == backendReq # NoRequest => HasApiKey(backendReq)

\* C2 (amended): every request the generate-report route forwards carries
\* the X-API-Key header with the configured value, for every incoming form;
\* the submit route forwards the form without any API key header.
C2_GenerateReportCarriesApiKey ==
    backendReq # NoRequest =>
        /\ backendReq.body = form
        /\ IF route = "/api/generate-report"
           THEN Header("X-API-Key", apiKey) \in backendReq.headers
           ELSE ~HasApiKey(backendReq)

C2_Witness ==
    /\ route = "/api/generate-report"
    /\ form.kind = "report"
    /\ Header("X-API-Key", "key-1") \in backendReq.headers

\* the runs of a handler, awaiting or finished last
AllRuns(fn) == {runs[i] : i \in InFlight(fn)} \cup (IF done.fn = fn THEN {done} ELSE {})

OpNames(log) == [i \in 1..Len(log) |-> log[i].op]
IsPrefix(a, b) == Len(a) <= Len(b) /\ a = SubSeq(b, 1, Len(a))
Count(log, op) == Cardinality({i \in 1..Len(log) : log[i].op = op})

\* C3: in one run of submit the steps come in the order location, upload,
\* POST, display: no upload is issued while the location is awaited, no POST
\* before the upload has succeeded, and the POST carries the public URL of
\* the uploaded path with the latitude and longitude just obtained.
C3_StepsInOrder ==
    \A r \in AllRuns("submit") :
        /\ r.file # NULL
        /\ IsPrefix(OpNames(r.log), <<"getCurrentPosition", "upload", "POST">>)
        /\ r.pc = "awaitLocation" => Len(r.log) <= 1
        /\ r.pc = "awaitUpload" => Len(r.log) = 2
        /\ r.failedAt \in {"location", "upload"} => Len(r.log) < 3
        /\ Len(r.log) >= 2 =>
              /\ <<r.lat, r.lon>> \in Positions
              /\ r.log[2].target = r.file
        /\ Len(r.log) = 3 =>
              /\ r.log[2].target \in storage
              /\ r.log[3].target = "/api/generate-report"
              /\ r.log[3].form =
                    Form("report", PublicUrl(r.log[2].target), r.lat, r.lon, NULL)
        /\ (r.pc = "done" /\ r.failedAt = "") => Len(r.log) = 3

C3_Witness ==
    /\ done.fn = "submit" /\ done.failedAt = ""
    /\ done.file = "b.jpg" /\ done.lat = 41
    /\ parsedReport.kind = "report"

\* C4: whichever step of submit fails, the failure is caught, no later step
\* is issued, and the displayed message is a non-empty text for the failure.
C4_FailuresAreCaught ==
    (done.fn = "submit" /\ done.failedAt \in {"location", "upload", "status"}) =>
        /\ message # NULL /\ message # ""
        /\ MessageShown
        /\ done.failedAt = "location" =>
              /\ message = IF geoSupported THEN "Unknown error"
                           ELSE "Geolocation not supported"
              /\ Count(done.log, "upload") = 0 /\ Count(done.log, "POST") = 0
        /\ done.failedAt = "upload" =>
              /\ \E reason \in UploadErrors : message = "File upload failed: " \o reason
              /\ Count(done.log, "POST") = 0
        /\ done.failedAt = "status" =>
              /\ ~Ok(done.res)
              /\ message = "Server error " \o ToString(done.res.status)
        /\ (runs = <<>>) => ~loading

C4_Witness ==
    /\ done.fn = "submit" /\ done.failedAt = "status"
    /\ message = "Server error 503"
    /\ runs = <<>>

Handlers == {"submit", "generateDraft", "submitReport"}

\* C5: nothing is retried: one run of submit, generateDraft or submitReport
\* issues the position request, the upload and the POST at most once each.
C5_NothingRetried ==
    \A fn \in Handlers : \A r \in AllRuns(fn) :
        /\ Count(r.log, "getCurrentPosition") <= 1
        /\ Count(r.log, "upload") <= 1
        /\ Count(r.log, "POST") <= 1
        /\ Len(r.log) <= 3

C5_Witness ==
    /\ done.fn = "submit" /\ done.failedAt = "upload"
    /\ Count(done.log, "getCurrentPosition") = 1
    /\ Count(done.log, "upload") = 1

\* C6 (as stated): in the draft uploader no two runs of submitReport are
\* awaiting at the same time.
C6_NoParallelSubmitReport == Cardinality(InFlight("submitReport")) <= 1

\* C7: in the current uploader at most one run of submit is awaiting; while
\* it awaits, loading is true, the submit button is disabled, and the file
\* input is not rendered, so the selected file stays the one being sent.
C7_OneSubmitInFlight ==
    /\ Len(runs) <= 1
    /\ runs # <<>> =>
          /\ loading
          /\ ~SubmitButtonEnabled
          /\ ~FileInputRendered
          /\ file = runs[1].file

C7_Witness ==
    /\ page = "uploader"
    /\ Len(runs) = 1 /\ runs[1].pc = "awaitPost"
    /\ started = 2

\* C8 (as stated): an OK answer of any observed shape ends submit in success.
C8_OkResponseSucceeds ==
    (done.fn = "submit" /\ Ok(done.res) /\ done.res.body.wellFormed) =>
        /\ done.failedAt = ""
        /\ (done.res.body.shape # "report" /\ runs = <<>>) =>
              message = "Success!" /\ file = NULL /\ preview = NULL

\* the fields of a JSON object, as the claim reads them
FromObject(mem) == [f \in FieldSet |-> OrEmpty(Member(mem, f))]
FromPatterns(t) ==
    [f \in FieldSet |-> IF Match(t, f).found THEN JsStr(Match(t, f).group1) ELSE JsStr("")]
FieldsEqual(r, g) == \A f \in FieldSet : r[f] = g[f]
IsObject(j) == j.ok /\ j.v = JsObj

\* C9 (as stated): a report that parses as a JSON object gives its fields;
\* one that does not parse gives each field as the first capture of its
\* pattern, and the result is null when none of the five patterns matches.
C9_JsonElseRegexElseNull ==
    (parsed # Pending /\ reportStr.def) =>
        LET j == JSONparse(Trim(reportStr.toks)) IN
        /\ IsObject(j) =>
              parsed.kind = "report" /\ FieldsEqual(parsed, FromObject(j.mem))
        /\ ~j.ok =>
              IF \A f \in FieldSet : ~Match(reportStr.toks, f).found
              THEN parsed = NullReport
              ELSE parsed.kind = "report"
                   /\ FieldsEqual(parsed, FromPatterns(reportStr.toks))

\* C9 (amended): a report that parses as a JSON object gives its fields, a
\* missing one as the empty string; one that does not parse as JSON gives
\* each field as the first capture of its pattern, and the result is null
\* exactly when none of title, category and description captured a
\* non-empty string, whatever location and impact captured.
C9_NullDecidedByThreeFields ==
    (parsed # Pending /\ reportStr.def) =>
        LET j == JSONparse(Trim(reportStr.toks))
            caps == FromPatterns(reportStr.toks)
        IN  /\ IsObject(j) =>
                  parsed.kind = "report" /\ FieldsEqual(parsed, FromObject(j.mem))
            /\ ~j.ok =>
                  IF \E f \in {"title", "category", "description"} : caps[f].s # ""
                  THEN parsed.kind = "report" /\ FieldsEqual(parsed, caps)
                  ELSE parsed = NullReport

C9_Witness ==
    /\ parsed = NullReport
    /\ ~JSONparse(Trim(reportStr.toks)).ok
    /\ Match(reportStr.toks, "location").found
    /\ Match(reportStr.toks, "location").group1 = "x"

\* C10: the only operation ever issued against a table is the dashboard's
\* select of all rows of 'items'; the uploaders issue position requests,
\* storage uploads and POSTs to the proxy routes, and nothing else.
C10_TableOnlyRead ==
    \A r \in issued :
        /\ r.svc = "table" => (r = SelectAll("items") /\ page = "dashboard")
        /\ page \in {"uploader", "draft"} =>
              \/ r.svc = "geolocation"
              \/ r.svc = "storage" /\ r.op = "upload" /\ r.target \in FileNames
              \/ r.svc = "fetch" /\ r.target \in {"/api/generate-report", "/api/draft",
                                                  "/api/submit"}

C10_Witness ==
    /\ page = "dashboard"
    /\ SelectAll("items") \in issued
    /\ ~loading /\ Len(locations) = 2

\* ------------------------------------------------------------------------
\* Properties of the dashboard
\* ------------------------------------------------------------------------
Indices(seq) == 1..Len(seq)

RECURSIVE SumCounts(_)
SumCounts(entries) ==
    IF entries = <<>> THEN 0 ELSE Head(entries).count + SumCounts(Tail(entries))

HasTimestamp(row) == Truthy(row.timestamp)
ValidTimestamp(row) == HasTimestamp(row) /\ NewDate(row.timestamp.s).valid

\* the months of 2025, and the month and year a label names
Months == {Date(TRUE, 2025, m) : m \in 1..12}
Names(label, d) == label = MonthYear(d, locale)
IsMonthLabel(label) == \E d \in Months : Names(label, d)
MonthOf(label) == CHOOSE d \in Months : Names(label, d)

\* C11 (as stated): when the dashboard is rendered, every marker placed on
\* the map and the map's default center have a latitude and a longitude that
\* are not missing, whatever rows the table returned.
C11_PlottedHaveCoordinates ==
    DashboardRendered =>
        /\ \A i \in Indices(Markers) : Markers[i].lat.def /\ Markers[i].lon.def
        /\ defaultCenter.lat.def /\ defaultCenter.lon.def

\* C12 (as stated): every category among the loaded locations has one entry
\* of sortedCategories holding the number of locations of that category, the
\* counts sum to totalLocations, there are uniqueCategories entries, and
\* the entries are in descending order of count.
C12_CategoryTallyExact ==
    LET e == edaData.sortedCategories IN
    /\ \A i \in Indices(locations) :
          \E k \in Indices(e) :
             /\ e[k].key = PropertyKey(locations[i].category)
             /\ e[k].count = Cardinality({j \in Indices(locations) :
                                            locations[j].category = locations[i].category})
    /\ SumCounts(e) = edaData.totalLocations
    /\ Len(e) = edaData.uniqueCategories
    /\ \A k \in 1..(Len(e) - 1) : e[k].count >= e[k + 1].count

\* C13 (as stated): every entry of sortedMonths is labelled with a month and
\* year and holds the number of locations whose timestamp falls in it,
\* locations without a timestamp are in no entry, the counts sum to the
\* number of locations with a timestamp, and the entries are in
\* chronological order.
C13_MonthTallyExact ==
    LET e == edaData.sortedMonths IN
    /\ \A k \in Indices(e) :
          /\ IsMonthLabel(e[k].key)
          /\ e[k].count = Cardinality({i \in Indices(locations) :
                                         /\ ValidTimestamp(locations[i])
                                         /\ Names(e[k].key, NewDate(locations[i].timestamp.s))})
    /\ SumCounts(e) = Cardinality({i \in Indices(locations) : HasTimestamp(locations[i])})
    /\ \A k \in Indices(e) : \A l \in Indices(e) :
          (k < l /\ IsMonthLabel(e[k].key) /\ IsMonthLabel(e[l].key)) =>
              GetTime(MonthOf(e[k].key)).t < GetTime(MonthOf(e[l].key)).t

\* C18 (as stated): a location whose timestamp is present but is no valid
\* date adds to no entry of sortedMonths: every label is a month and year,
\* and the counts sum to the number of locations with a valid timestamp.
C18_InvalidTimestampsSkipped ==
    LET e == edaData.sortedMonths IN
    /\ \A k \in Indices(e) : IsMonthLabel(e[k].key)
    /\ SumCounts(e) = Cardinality({i \in Indices(locations) : ValidTimestamp(locations[i])})

\* ------------------------------------------------------------------------
\* Properties of getLocation and of the uploader's display
\* ------------------------------------------------------------------------
PositionRequest == Issue("geolocation", "getCurrentPosition", "navigator.geolocation")

\* C14: one call of getLocation issues one position request when the browser
\* supports geolocation and none when it does not; while the call is awaited
\* nothing has been delivered; once settled the caller holds either the
\* reported latitude and longitude, or the browser's error, or, without
\* support, the error 'Geolocation not supported'.
C14_GetLocationOneShot ==
    /\ ~geoSupported => PositionRequest \notin issued
    /\ \A fn \in Handlers : \A r \in AllRuns(fn) :
          /\ Count(r.log, "getCurrentPosition") = (IF geoSupported THEN 1 ELSE 0)
          /\ r.pc = "awaitLocation" => (r.lat = 0 /\ r.lon = 0 /\ r.failedAt = "")
          /\ (r.pc # "awaitLocation" /\ r.failedAt # "location") =>
                (geoSupported /\ <<r.lat, r.lon>> \in Positions)
          /\ r.failedAt = "location" =>
                /\ r.lat = 0 /\ r.lon = 0 /\ Len(r.log) <= 1
                /\ IF geoSupported THEN r.err \in PositionErrors
                   ELSE r.err = Err(TRUE, "Geolocation not supported")

C14_Witness ==
    /\ geoSupported
    /\ Len(runs) = 1 /\ runs[1].pc = "awaitUpload"
    /\ runs[1].lat = 41 /\ runs[1].lon = -73
    /\ Count(runs[1].log, "getCurrentPosition") = 1

Settled == started = 1 /\ runs = <<>>

\* what holds of the dashboard in every state
LoadingStates ==
    /\ ~Settled => (loading /\ LoadingView /\ locations = <<>> /\ error = NULL)
    /\ Settled => ~loading
    /\ DashboardRendered => (~loading /\ error = NULL)
    /\ (Settled /\ done.failedAt = "select") =>
          /\ error = done.err.message
          /\ ErrorView /\ ~DashboardRendered
          /\ locations = <<>>
    /\ (Settled /\ done.failedAt = "") => (error = NULL /\ DashboardRendered)

\* C15: loading is true from mount until the select settles, false from
\* then on, and the select does settle; the map and statistics are rendered
\* only while loading is false and error is null; after a failed select,
\* error is the failure's message, the error view is shown and locations is
\* still empty.
C15_FetchEndsLoading ==
    /\ []LoadingStates
    /\ [][~loading => ~loading']_vars
    /\ <>[](~loading)

C15_Witness ==
    /\ page = "dashboard" /\ Settled
    /\ done.failedAt = "select"
    /\ error = "permission denied for table items"
    /\ ErrorView

\* a step in which a run of fn ends without having failed
Succeeds(fn) ==
    /\ Len(runs') < Len(runs)
    /\ done'.fn = fn /\ done'.failedAt = ""

ReportDisplay ==
    parsedReport.kind = "report" /\ message = "Report generated successfully!"
MessageDisplay == parsedReport = NullReport /\ message # NULL

\* C16: a submit that succeeds leaves file and preview null and exactly one
\* of two displays: the report with the message 'Report generated
\* successfully!', or no report and a message; the message paragraph and the
\* photo upload section are rendered only while parsedReport is null.
C16_SuccessDisplaysOne ==
    /\ [][Succeeds("submit") =>
            /\ file' = NULL /\ preview' = NULL
            /\ (ReportDisplay' /\ ~MessageDisplay') \/ (MessageDisplay' /\ ~ReportDisplay')
            /\ MessageDisplay' => MessageShown']_vars
    /\ [](MessageShown => parsedReport = NullReport)
    /\ []((UploadSectionRendered \/ FileInputRendered \/ SubmitButtonRendered)
             => parsedReport = NullReport)
    /\ [](ReportShown => (ReportDisplay /\ ~MessageShown /\ file = NULL /\ preview = NULL))

C16_Witness ==
    /\ done.fn = "submit" /\ done.failedAt = ""
    /\ file = NULL /\ preview = NULL
    /\ parsedReport = NullReport
    /\ message = "Here Here" /\ MessageShown

\* C17 (as stated): a report that parseReportString returns, on the JSON
\* path as on the regex path, has a non-empty string as its title, its
\* category or its description.
C17_NonNullHasData ==
    parsed.kind = "report" =>
        \E f \in {"title", "category", "description"} :
            parsed[f].t = "str" /\ parsed[f].s # ""

\* a step in which a run of fn starts, and one in which a run of fn ends
Starts(fn) == Len(runs') > Len(runs) /\ runs'[Len(runs')].fn = fn
Ends(fn) == Len(runs') < Len(runs) /\ done'.fn = fn

Outcomes == {"", "location", "upload", "post", "status", "json", "parse"}

\* C19: in the uploader loading is false whenever no submit is in flight; a
\* submit that starts has a file and sets loading; every outcome of the
\* sequence sets it false again, and with every awaited call settling a
\* submit in flight does end; submit called with no file changes nothing.
C19_LoadingFollowsSubmit ==
    /\ [](InFlight("submit") = {} => ~loading)
    /\ [][Starts("submit") => (file # NULL /\ loading')]_vars
    /\ [][Ends("submit") => (done'.failedAt \in Outcomes /\ ~loading')]_vars
    /\ [](file = NULL => ~ENABLED (submitCalled /\ vars' # vars))
    /\ (loading ~> ~loading)

C19_Witness ==
    /\ page = "uploader"
    /\ done.fn = "submit" /\ done.failedAt = "json"
    /\ ~loading /\ runs = <<>>
    /\ file # NULL

Fails(fn) == Ends(fn) /\ done'.failedAt # ""

\* C20: from the start of a submit to its failure file, preview and
\* parsedReport do not change, and the failure changes only message and
\* loading: the photo the run was started with is still selected and the
\* submit button is enabled again; resetReport changes only parsedReport
\* and message.
C20_FailureKeepsSelection ==
    /\ [][(InFlight("submit") # {} /\ ~Succeeds("submit")) =>
             UNCHANGED <<file, preview, parsedReport>>]_vars
    /\ [][Fails("submit") =>
             /\ file' = done'.file /\ file' # NULL /\ preview' # NULL
             /\ parsedReport' = NullReport
             /\ ~loading' /\ SubmitButtonEnabled'
             /\ UNCHANGED <<file, preview, parsedReport, started, storage, issued>>]_vars
    /\ [][(ReportShown /\ ~ReportShown') =>
             /\ parsedReport' = NullReport /\ message' = NULL
             /\ UNCHANGED <<file, preview, loading, runs, started, done, storage, issued>>]_vars

C20_Witness ==
    /\ page = "uploader"
    /\ done.fn = "submit" /\ done.failedAt = "upload"
    /\ started = 2 /\ Len(runs) = 1
    /\ runs[1].file = done.file /\ file = done.file

\* what submitReport does to the selection, run by run: a run starts only
\* with a draft and a file, a run that succeeds sets file, draft and preview
\* to null in one step, a run that fails changes none of them, and a call
\* without a draft or without a file changes nothing
SubmitReportSteps ==
    /\ [][Starts("submitReport") => (draft # NULL /\ file # NULL)]_vars
    /\ [][Succeeds("submitReport") =>
             (file' = NULL /\ draft' = NULL /\ preview' = NULL)]_vars
    /\ [][Fails("submitReport") => UNCHANGED <<file, draft, preview>>]_vars
    /\ []((draft = NULL \/ file = NULL) => ~ENABLED (submitReport /\ vars' # vars))

DraftHasFile == draft # NULL => file # NULL

\* C21 (as stated): in the draft uploader submitReport does nothing unless a
\* draft and a file are present, resets file, draft and preview together
\* when it succeeds and leaves them unchanged when a step fails; and so, in
\* every reachable state, a draft that is not null has a file that is not
\* null.
C21_DraftImpliesFile == SubmitReportSteps /\ []DraftHasFile

\* the runs of submit that have computed their storage path
WithPath == {r \in AllRuns("submit") : r.filePath # NULL}

\* a step in which the upload of a file named f succeeds
Uploaded(f) ==
    \E i \in 1..Len(runs) :
        /\ runs[i].fn = "submit" /\ runs[i].pc = "awaitUpload" /\ runs[i].file = f
        /\ Len(runs') = Len(runs) /\ runs'[i].pc = "awaitPost"

\* C22: the path a submit uploads to is the name of the file it was started
\* with, whatever its mainId, its position and the submits before it: the
\* upload is issued to that name and the form POSTed carries the public URL
\* of that name; runs of files with one name have one path, and an upload
\* that succeeds adds to the bucket the object of that name and no other, so
\* that the bucket holds one object per name, that of an earlier session
\* included.
C22_PathIsFileName ==
    /\ [](\A r \in WithPath :
             /\ r.mainId \in MainIds
             /\ r.filePath = r.file
             /\ r.log[2] = Op("upload", r.file, NoForm)
             /\ UploadTo(r.file) \in issued
             /\ Len(r.log) = 3 => r.log[3].form.file = PublicUrl(r.file))
    /\ [](\A r, q \in WithPath : r.file = q.file => r.filePath = q.filePath)
    /\ [][\A f \in FileNames : Uploaded(f) => storage' = storage \cup {f}]_vars
    /\ [](storage \subseteq FileNames)

\* a second submit of a.jpg in a session that found a.jpg in the bucket: the
\* two runs differ in mainId and in position and have the same path
C22_Witness ==
    /\ page = "uploader"
    /\ done.fn = "submit" /\ done.failedAt = "" /\ done.filePath = "a.jpg"
    /\ Len(runs) = 1 /\ runs[1].pc = "awaitPost" /\ runs[1].filePath = "a.jpg"
    /\ runs[1].mainId # done.mainId /\ runs[1].lat # done.lat
    /\ runs[1].log[3].form.file = PublicUrl("a.jpg")
    /\ storage = {"a.jpg"}

====
